---- MODULE Spec2Model ----
(***************************************************************************)
(* State-machine model of the exam runner, src/src/pages/exam/             *)
(* ExamInterface.jsx: the exam-metadata fetch, the start-attempt effect    *)
(* and mutation, the countdown interval and its captured closure, answer   *)
(* collection, question navigation, handleSubmit and the submit mutation.  *)
(* The question manager, src/src/pages/admin/Questions.jsx, is modelled    *)
(* by its bulk-insert dialog (BulkSpec, BatchSpec), its add-question form  *)
(* (FormSpec), the form's images (ImageSpec) and the requests that save    *)
(* the add and edit forms (SaveSpec); StartSpec follows the start of an    *)
(* attempt for durations in whole minutes and for a response without a     *)
(* duration.                                                               *)
(*                                                                         *)
(* React effects run after the commit of the render that changed one of    *)
(* their dependencies and before any later event is handled, so an effect  *)
(* is modelled inside the action whose state change triggers it.           *)
(* window.confirm blocks the UI thread, so handleSubmit is one step.       *)
(***************************************************************************)
EXTENDS Integers, Sequences, FiniteSets, TLC

VARIABLES
    server,          \* the exam as the backend holds it (fixed per behaviour)
    examLoading,     \* useState(true), line 36
    examError,       \* useState(null), line 37 (TRUE when an error is stored)
    examData,        \* useState(null), line 35
    currentQuestion, \* useState(0), line 28
    answers,         \* useState({}), line 29: entries in insertion order
    timeLeft,        \* useState(3600), line 30
    isSubmitted,     \* useState(false), line 31
    attemptId,       \* useState(null), line 32
    startPending,    \* startAttempt requests in flight
    startRequests,   \* startAttempt requests issued so far
    timer,           \* the setInterval of lines 187-196 and what its callback closed over
    ticks,           \* interval callbacks run since the interval was created
    startDuration,   \* attempt.duration of the latest successful start response
    submitPending,   \* submitAttempt requests in flight
    timeouts,        \* callbacks scheduled with setTimeout and not yet run
    location,        \* the router's current location
    last,            \* the handleSubmit call and the notification of the latest step
    returnedQuestions, \* the question list of the latest successful start response
    showAddModal,    \* Questions.jsx useState(false), line 12
    isBulkInsert,    \* Questions.jsx useState(false), line 73
    bulkData,        \* Questions.jsx useState(''), line 74: the text, as tokens
    bulkPending,     \* bulkCreateQuestions requests in flight
    bulkLast,        \* the handleBulkInsert call made by the latest step, if any
    uploadLast,      \* the handleImageUpload call made by the latest step, if any
    editingQuestion, \* Questions.jsx useState(null), line 13
    createPending,   \* createQuestion requests in flight
    updatePending,   \* updateQuestion requests in flight
    saveLast,        \* the handleAddQuestion or handleUpdateQuestion call of the latest step
    formData         \* Questions.jsx useState({...}), lines 60-71

\* the state of the exam runner, src/src/pages/exam/ExamInterface.jsx
examVars == << server, examLoading, examError, examData, currentQuestion, answers,
               timeLeft, isSubmitted, attemptId, startPending, startRequests, timer,
               ticks, startDuration, submitPending, timeouts, location, last,
               returnedQuestions >>

\* the state of the question manager, src/src/pages/admin/Questions.jsx
adminVars == << showAddModal, isBulkInsert, bulkData, bulkPending, bulkLast, uploadLast,
               editingQuestion, createPending, updatePending, saveLast, formData >>

vars == << examVars, adminVars >>

(***************************************************************************)
(* Bounds of the model.                                                    *)
(***************************************************************************)
MaxPending == 1        \* submitAttempt requests the Submit button adds to those in flight
MaxDuration == 2       \* largest attempt duration served, in twentieths of a minute
MaxMinutes == 2        \* largest whole number of minutes served as attempt duration
MaxTicks == 3          \* ticks followed after a start response with a duration in minutes
MaxTextLen == 4        \* longest question text typed into the form, in characters
MaxOptions == 4        \* most options the multiple-choice form holds
MaxTokens == 5         \* longest text typed into the bulk textarea, in tokens
MaxUpload == 2         \* most files chosen in one use of the image input

(***************************************************************************)
(* Program constants.                                                      *)
(***************************************************************************)
SecondsPerMinute == 60
DefaultTimeLeft == 3600
RedirectDelayMs == 3000
ResultsDelayMs == 3000

(***************************************************************************)
(* JavaScript values.                                                      *)
(***************************************************************************)
Null == "<null>"
Undefined == "<undefined>"
ServerAttemptId == "att-1"

\* !v for the values an attempt id takes (null, undefined, a non-empty string)
Falsy(v) == v \in {Null, Undefined}

\* answer values: a number, a string, or an array of strings
Num(n) == [t |-> "number", n |-> n, s |-> "", l |-> << >>]
Str(s) == [t |-> "string", n |-> 0, s |-> s, l |-> << >>]
Arr(l) == [t |-> "array", n |-> 0, s |-> "", l |-> l]
NoValue == [t |-> "undefined", n |-> 0, s |-> "", l |-> << >>]
IsArray(v) == v.t = "array"

\* A question id is a number or a string; s is String(id), its property-key form.
NumId(i) == [isNum |-> TRUE, s |-> << "1", "2", "3", "4" >>[i]]
StrId(i) == [isNum |-> FALSE, s |-> << "q1", "q2", "q3", "q4" >>[i]]

\* obj[id] and { [id]: v } convert the id to a property key with String(id)
PropertyKey(id) == id.s

\* q.id === questionId, where questionId is a key given by Object.entries (a string)
StrictEqualsKey(id, key) == (~id.isNum) /\ id.s = key

\* keys that are canonical array indices are enumerated first, in ascending order
IntegerLikeRank(key) ==
    CASE key = "1" -> 1 [] key = "2" -> 2 [] key = "3" -> 3 [] key = "4" -> 4
      [] OTHER -> 0

(***************************************************************************)
(* The answers object: a sequence of entries [k, v], keys unique, in       *)
(* insertion order.                                                        *)
(***************************************************************************)
Keys(obj) == { obj[i].k : i \in 1..Len(obj) }
Has(obj, key) == key \in Keys(obj)
Get(obj, key) ==
    IF Has(obj, key)
    THEN obj[CHOOSE i \in 1..Len(obj) : obj[i].k = key].v
    ELSE NoValue

\* a variant that builds the object from the new entry alone
PutAlone(obj, key, value) == << [k |-> key, v |-> value] >>

\* { ...obj, [key]: value }
Put(obj, key, value) ==
    IF Has(obj, key)
    THEN [i \in 1..Len(obj) |-> IF obj[i].k = key THEN [k |-> key, v |-> value] ELSE obj[i]]
    ELSE Append(obj, [k |-> key, v |-> value])

RECURSIVE InsertByRank(_, _)
InsertByRank(sorted, e) ==
    IF sorted = << >> THEN << e >>
    ELSE IF IntegerLikeRank(e.k) < IntegerLikeRank(Head(sorted).k)
         THEN << e >> \o sorted
         ELSE << Head(sorted) >> \o InsertByRank(Tail(sorted), e)

RECURSIVE SortByRank(_)
SortByRank(obj) ==
    IF obj = << >> THEN << >>
    ELSE InsertByRank(SortByRank(SubSeq(obj, 1, Len(obj) - 1)), obj[Len(obj)])

\* Object.entries(obj): integer-like keys ascending, then the others in insertion order
ObjectEntries(obj) ==
    LET ints == SelectSeq(obj, LAMBDA e : IntegerLikeRank(e.k) > 0)
        strs == SelectSeq(obj, LAMBDA e : IntegerLikeRank(e.k) = 0)
    IN  SortByRank(ints) \o strs

(***************************************************************************)
(* Questions.                                                              *)
(***************************************************************************)
\* the exams the backend may hold: the types of their questions, in order
Banks == { << "MULTIPLE_CHOICE", "ESSAY" >>,
           << "FILL_IN_THE_BLANK", "SHORT_ANSWER" >> }
OptionIndexes == { 0, 1 }
Texts == { "a" }
BlankTexts == { "x", "y" }

NoQuestion == [id |-> [isNum |-> FALSE, s |-> ""], type |-> "undefined"]

\* the first n questions of the backend's exam
Prefix(srv, n) ==
    [i \in 1..n |-> [id |-> IF srv.numericIds THEN NumId(i) ELSE StrId(i),
                     type |-> srv.bank[i]]]

\* questions.find(q => q.id === questionId)
Find(qs, questionId) ==
    IF \E i \in 1..Len(qs) : StrictEqualsKey(qs[i].id, questionId)
    THEN qs[CHOOSE i \in 1..Len(qs) :
                /\ StrictEqualsKey(qs[i].id, questionId)
                /\ \A j \in 1..(i - 1) : ~StrictEqualsKey(qs[j].id, questionId)]
    ELSE NoQuestion

(***************************************************************************)
(* Derived render values.                                                  *)
(***************************************************************************)
NoData == [loaded |-> FALSE, examId |-> Undefined,
           attemptsInfo |-> [present |-> FALSE, attemptsUsed |-> 0,
                             attemptsAllowed |-> 0, canTakeExam |-> FALSE],
           questions |-> << >>]

\* const questions = examData?.data?.data?.questions || exam.questions || []
questions == examData.questions

\* attemptsInfo && !attemptsInfo.canTakeExam
AttemptsExceeded(data) == data.attemptsInfo.present /\ ~data.attemptsInfo.canTakeExam

Mounted == location.route = "/exam"

\* the render reaches the question view (none of the early returns is taken)
QuestionView ==
    /\ Mounted
    /\ ~examError
    /\ ~examLoading
    /\ ~AttemptsExceeded(examData)
    /\ ~isSubmitted
    /\ Len(questions) > 0
    /\ currentQuestion < Len(questions)

\* questions[currentQuestion] (the state index is 0-based)
currentQuestionData == questions[currentQuestion + 1]

\* Math.round(num / den) for num >= 0 and den > 0: halves round up
MathRound(num, den) == (2 * num + den) \div (2 * den)

\* Math.round((Object.keys(answers).length / questions.length) * 100), lines 663 and 1275
ProgressPercent(ans, qs) == MathRound(Cardinality(Keys(ans)) * 100, Len(qs))

(***************************************************************************)
(* handleSubmit, lines 208-256.                                            *)
(***************************************************************************)
\* the callback of Object.entries(answers).map, lines 231-248
BuildResponse(questionId, answer, qs) ==
    LET found == Find(qs, questionId)
    IN  IF found.type = "ESSAY" \/ found.type = "SHORT_ANSWER"
        THEN [questionId |-> questionId, selectedOptions |-> << >>,
              hasEssayAnswer |-> TRUE, essayAnswer |-> answer, timeSpent |-> 0]
        ELSE [questionId |-> questionId,
              selectedOptions |-> IF IsArray(answer) THEN answer.l ELSE << answer >>,
              hasEssayAnswer |-> FALSE, essayAnswer |-> NoValue, timeSpent |-> 0]

\* a variant that maps over the question list instead of the recorded answers
ResponsesPerQuestion(ans, qs) ==
    [i \in 1..Len(qs) |->
        BuildResponse(PropertyKey(qs[i].id), Get(ans, PropertyKey(qs[i].id)), qs)]

\* const responses = Object.entries(answers).map(...)
Responses(ans, qs) ==
    LET entries == ObjectEntries(ans)
    IN  [i \in 1..Len(entries) |-> BuildResponse(entries[i].k, entries[i].v, qs)]

\* a number or undefined
NoNumber == [present |-> FALSE, n |-> 0]
Number(n) == [present |-> TRUE, n |-> n]

\* error.response?.data of a request that failed without a response
NoPayload == [message |-> Undefined, attemptsUsed |-> NoNumber, attemptsAllowed |-> NoNumber]

\* the second notification of startAttemptMutation.onError, lines 106-109
NoDetail == [shown |-> FALSE, attemptsUsed |-> 0, attemptsAllowed |-> 0]

NoCall == [via |-> "none", toast |-> "", confirmShown |-> FALSE, confirmed |-> FALSE,
           sent |-> FALSE, attemptId |-> Null, responses |-> << >>,
           answersRead |-> << >>, startFailed |-> FALSE, error |-> NoPayload,
           detail |-> NoDetail]

\* a variant that sends without asking for confirmation
HandleSubmitUnconfirmed(via, cAttemptId, cAnswers, cQuestions, ok) ==
    IF Falsy(cAttemptId)
    THEN /\ last' = [NoCall EXCEPT !.via = via, !.toast = "No active exam attempt"]
         /\ UNCHANGED submitPending
    ELSE /\ last' = [NoCall EXCEPT !.via = via, !.sent = TRUE, !.attemptId = cAttemptId,
                                   !.responses = Responses(cAnswers, cQuestions),
                                   !.answersRead = cAnswers]
         /\ submitPending' = submitPending + 1

\* a variant without the attempt-id check of lines 211-214
HandleSubmitUnguarded(via, cAttemptId, cAnswers, cQuestions, ok) ==
    IF ok
    THEN /\ last' = [NoCall EXCEPT !.via = via, !.confirmShown = TRUE, !.confirmed = TRUE,
                                   !.sent = TRUE, !.attemptId = cAttemptId,
                                   !.responses = Responses(cAnswers, cQuestions),
                                   !.answersRead = cAnswers]
         /\ submitPending' = submitPending + 1
    ELSE /\ last' = [NoCall EXCEPT !.via = via, !.confirmShown = TRUE]
         /\ UNCHANGED submitPending

\* One call of handleSubmit from a render whose attemptId, answers and questions
\* are cAttemptId, cAnswers and cQuestions; ok is the user's reply to window.confirm.
HandleSubmit(via, cAttemptId, cAnswers, cQuestions, ok) ==
    IF Falsy(cAttemptId)
    THEN /\ last' = [NoCall EXCEPT !.via = via, !.toast = "No active exam attempt"]
         /\ UNCHANGED submitPending
    ELSE IF ok
    THEN /\ last' = [NoCall EXCEPT !.via = via, !.confirmShown = TRUE, !.confirmed = TRUE,
                                   !.sent = TRUE, !.attemptId = cAttemptId,
                                   !.responses = Responses(cAnswers, cQuestions),
                                   !.answersRead = cAnswers]
         /\ submitPending' = submitPending + 1
    ELSE /\ last' = [NoCall EXCEPT !.via = via, !.confirmShown = TRUE]
         /\ UNCHANGED submitPending

(***************************************************************************)
(* Effects.                                                                *)
(***************************************************************************)
NoTimer == [active |-> FALSE, attemptId |-> Null, answers |-> << >>, questions |-> << >>]

\* the start-attempt effect, lines 162-182: what it does when it runs
StartEffectGuard(data, id) == data.loaded /\ ~Falsy(data.examId) /\ Falsy(id)
StartEffectRedirects(data, id) == StartEffectGuard(data, id) /\ AttemptsExceeded(data)
\* a variant in which the attempts check does not return before the mutation
StartEffectMutatesAfterCheck(data, id) == StartEffectGuard(data, id)
StartEffectMutates(data, id) == StartEffectGuard(data, id) /\ ~AttemptsExceeded(data)

\* setTimeout(() => navigate('/student/tests'), 3000), lines 173-175
RedirectCallback == [kind |-> "redirect", delay |-> RedirectDelayMs, respAttemptId |-> Null]

\* a variant without the early return of line 185
TimerEffectAlwaysStarts(id, submitted) == TRUE
\* the countdown effect, lines 184-199: whether it creates the interval
TimerEffectStarts(id, submitted) == ~(Falsy(id) \/ submitted)

\* setTimeLeft(data.data?.data?.attempt?.duration * 60 || 3600), line 80
\* duration is a number of minutes, num/den; the served ones are whole seconds.
NoDuration == [present |-> FALSE, num |-> 0, den |-> 1]
Twentieths(k) == [present |-> TRUE, num |-> k, den |-> 20]
Minutes(k) == [present |-> TRUE, num |-> k, den |-> 1]
\* a variant without the || 3600 fallback
InitialTimeLeftNoDefault(d) == (d.num * SecondsPerMinute) \div d.den
InitialTimeLeft(d) ==
    IF d.present /\ (d.num * SecondsPerMinute) \div d.den # 0
    THEN (d.num * SecondsPerMinute) \div d.den
    ELSE DefaultTimeLeft

(***************************************************************************)
(* Actions.                                                                *)
(***************************************************************************)
AttemptsInfos ==
    { [present |-> FALSE, attemptsUsed |-> 0, attemptsAllowed |-> 0, canTakeExam |-> FALSE],
      [present |-> TRUE, attemptsUsed |-> 1, attemptsAllowed |-> 3, canTakeExam |-> TRUE],
      [present |-> TRUE, attemptsUsed |-> 3, attemptsAllowed |-> 3, canTakeExam |-> FALSE] }

\* examAPI.getExamById(testId).then(...), lines 47-58, and the effects of the re-render
FetchExamSuccess ==
    /\ Mounted /\ examLoading
    /\ \E n \in { 0, Len(server.bank) }, info \in AttemptsInfos :
         LET data == [loaded |-> TRUE, examId |-> "exam-1", attemptsInfo |-> info,
                      questions |-> Prefix(server, n)]
         IN  /\ examData' = data
             /\ examLoading' = FALSE
             /\ timeouts' = IF StartEffectRedirects(data, attemptId)
                             THEN timeouts \cup { RedirectCallback }
                             ELSE timeouts
             /\ IF StartEffectMutates(data, attemptId)
                THEN /\ startPending' = startPending + 1
                     /\ startRequests' = startRequests + 1
                ELSE UNCHANGED << startPending, startRequests >>
    /\ last' = NoCall
    /\ UNCHANGED << adminVars, returnedQuestions >>
    /\ UNCHANGED << server, examError, currentQuestion, answers, timeLeft, isSubmitted,
                    attemptId, timer, ticks, startDuration, submitPending, location >>

\* .catch(...), lines 59-63
FetchExamError ==
    /\ Mounted /\ examLoading
    /\ examError' = TRUE
    /\ examLoading' = FALSE
    /\ last' = NoCall
    /\ UNCHANGED << adminVars, returnedQuestions >>
    /\ UNCHANGED << server, examData, currentQuestion, answers, timeLeft, isSubmitted,
                    attemptId, startPending, startRequests, timer, ticks, startDuration,
                    submitPending, timeouts, location >>

\* a variant that never replaces the question list
KeepQuestions(data, startQuestions) == data
\* if (startQuestions.length > 0) setExamData(prev => ...), lines 83-95
ReplaceQuestions(data, startQuestions) ==
    IF Len(startQuestions) > 0
    THEN [data EXCEPT !.questions = startQuestions]
    ELSE data

\* startAttemptMutation.onSuccess, lines 77-98, and the effects of the re-render.
\* batched: whether the build applies the three state updates in one render
\* (the interval's callback then closes over the replaced question list) or
\* renders after setAttemptId alone (it closes over the earlier one).
StartAttemptSuccess(durations) ==
    /\ Mounted /\ startPending > 0
    /\ \E hasId \in BOOLEAN, d \in durations, n \in 0..Len(server.bank),
          batched \in BOOLEAN :
         LET newId == IF hasId THEN ServerAttemptId ELSE Undefined
             startQuestions == Prefix(server, n)
             newData == ReplaceQuestions(examData, startQuestions)
             idChanged == newId # attemptId
         IN  /\ attemptId' = newId
             /\ startDuration' = d
             /\ returnedQuestions' = startQuestions
             /\ timeLeft' = InitialTimeLeft(d)
             /\ examData' = newData
             /\ timeouts' = IF idChanged /\ StartEffectRedirects(newData, newId)
                             THEN timeouts \cup { RedirectCallback }
                             ELSE timeouts
             /\ IF idChanged /\ StartEffectMutates(newData, newId)
                THEN /\ startPending' = startPending
                     /\ startRequests' = startRequests + 1
                ELSE /\ startPending' = startPending - 1
                     /\ UNCHANGED startRequests
             /\ IF idChanged
                THEN IF TimerEffectStarts(newId, isSubmitted)
                     THEN /\ timer' = [active |-> TRUE, attemptId |-> newId,
                                       answers |-> answers,
                                       questions |-> IF batched THEN newData.questions
                                                     ELSE questions]
                          /\ ticks' = 0
                     ELSE /\ timer' = NoTimer
                          /\ UNCHANGED ticks
                ELSE UNCHANGED << timer, ticks >>
    /\ last' = NoCall
    /\ UNCHANGED adminVars
    /\ UNCHANGED << server, examLoading, examError, currentQuestion, answers, isSubmitted,
                    submitPending, location >>

\* error.response?.data of a failed startAttempt request: message is a string or
\* absent, attemptsUsed and attemptsAllowed are numbers or absent; a failure
\* without a response (a network error) has none of the three
StartErrorPayloads ==
    [message : { Undefined, "", "Exam is not active" },
     attemptsUsed : { NoNumber, Number(0), Number(3) },
     attemptsAllowed : { NoNumber, Number(3) }]

\* error.response?.data?.message || 'Failed to start exam', line 100
StartErrorMessage(payload) ==
    IF payload.message = Undefined \/ payload.message = ""
    THEN "Failed to start exam"
    ELSE payload.message

\* the truthiness of a number or undefined
Truthy(number) == number.present /\ number.n # 0

\* if (attemptsUsed && attemptsAllowed) toast.error(`Attempts exceeded: ...`), lines 105-110
StartErrorDetail(payload) ==
    IF Truthy(payload.attemptsUsed) /\ Truthy(payload.attemptsAllowed)
    THEN [shown |-> TRUE, attemptsUsed |-> payload.attemptsUsed.n,
          attemptsAllowed |-> payload.attemptsAllowed.n]
    ELSE NoDetail

\* a variant of onError that issues the request again
StartAttemptErrorRetries ==
    /\ Mounted /\ startPending > 0
    /\ startRequests' = startRequests + 1
    /\ \E payload \in StartErrorPayloads :
         last' = [NoCall EXCEPT !.startFailed = TRUE, !.error = payload,
                                !.toast = StartErrorMessage(payload),
                                !.detail = StartErrorDetail(payload)]
    /\ UNCHANGED << adminVars, returnedQuestions >>
    /\ UNCHANGED << server, examLoading, examError, examData, currentQuestion, answers,
                    timeLeft, isSubmitted, attemptId, startPending, timer,
                    ticks, startDuration, submitPending, timeouts, location >>

\* startAttemptMutation.onError, lines 99-111: notifications, no state change
StartAttemptError ==
    /\ Mounted /\ startPending > 0
    /\ startPending' = startPending - 1
    /\ \E payload \in StartErrorPayloads :
         last' = [NoCall EXCEPT !.startFailed = TRUE, !.error = payload,
                                !.toast = StartErrorMessage(payload),
                                !.detail = StartErrorDetail(payload)]
    /\ UNCHANGED << adminVars, returnedQuestions >>
    /\ UNCHANGED << server, examLoading, examError, examData, currentQuestion, answers,
                    timeLeft, isSubmitted, attemptId, startRequests, timer,
                    ticks, startDuration, submitPending, timeouts, location >>

\* the updater passed to setTimeLeft, lines 188-195: its test and its result
Expires(prev) == prev <= 1
\* a variant that clamps one second early
NextTimeLeftClampsEarly(prev) == IF prev <= 2 THEN 0 ELSE prev - 1
NextTimeLeft(prev) == IF Expires(prev) THEN 0 ELSE prev - 1

\* the interval callback, lines 187-196; handleSubmit is the one the effect closed over
Tick ==
    /\ Mounted /\ timer.active
    /\ ticks' = ticks + 1
    /\ timeLeft' = NextTimeLeft(timeLeft)
    /\ IF Expires(timeLeft)
       THEN /\ timer' = NoTimer
            /\ \E ok \in BOOLEAN :
                 HandleSubmit("timer", timer.attemptId, timer.answers, timer.questions, ok)
       ELSE /\ last' = NoCall
            /\ UNCHANGED << timer, submitPending >>
    /\ UNCHANGED << adminVars, returnedQuestions >>
    /\ UNCHANGED << server, examLoading, examError, examData, currentQuestion, answers,
                    isSubmitted, attemptId, startPending, startRequests, startDuration,
                    timeouts, location >>

\* handleAnswerSelect(currentQuestionData.id, index), lines 201-206 and 918
SelectOption ==
    /\ QuestionView
    /\ currentQuestionData.type \notin { "ESSAY", "SHORT_ANSWER", "FILL_IN_THE_BLANK" }
    /\ \E index \in OptionIndexes :
         answers' = Put(answers, PropertyKey(currentQuestionData.id), Num(index))
    /\ last' = NoCall
    /\ UNCHANGED << adminVars, returnedQuestions >>
    /\ UNCHANGED << server, examLoading, examError, examData, currentQuestion, timeLeft,
                    isSubmitted, attemptId, startPending, startRequests,
                    timer, ticks, startDuration, submitPending, timeouts, location >>

\* the essay and short-answer textareas' onChange, lines 780 and 828
TypeText ==
    /\ QuestionView
    /\ currentQuestionData.type \in { "ESSAY", "SHORT_ANSWER" }
    /\ \E text \in Texts :
         answers' = Put(answers, PropertyKey(currentQuestionData.id), Str(text))
    /\ last' = NoCall
    /\ UNCHANGED << adminVars, returnedQuestions >>
    /\ UNCHANGED << server, examLoading, examError, examData, currentQuestion, timeLeft,
                    isSubmitted, attemptId, startPending, startRequests,
                    timer, ticks, startDuration, submitPending, timeouts, location >>

\* the blank input's onChange, lines 887-894 (a question with one blank). The
\* object is copied shallowly and an array already stored under the key is
\* written in place, so an earlier snapshot holding that array sees the write.
FillBlank ==
    /\ QuestionView
    /\ currentQuestionData.type = "FILL_IN_THE_BLANK"
    /\ \E text \in BlankTexts :
         LET key == PropertyKey(currentQuestionData.id)
             value == Arr(<< Str(text) >>)
         IN  /\ answers' = Put(answers, key, value)
             /\ timer' = IF timer.active /\ Has(answers, key) /\ Has(timer.answers, key)
                         THEN [timer EXCEPT !.answers = Put(timer.answers, key, value)]
                         ELSE timer
    /\ last' = NoCall
    /\ UNCHANGED << adminVars, returnedQuestions >>
    /\ UNCHANGED << server, examLoading, examError, examData, currentQuestion, timeLeft,
                    isSubmitted, attemptId, startPending, startRequests,
                    ticks, startDuration, submitPending, timeouts, location >>

Max(a, b) == IF a >= b THEN a ELSE b
Min(a, b) == IF a <= b THEN a ELSE b

\* the Previous button, lines 981-982
Previous ==
    /\ QuestionView
    /\ currentQuestion # 0
    /\ currentQuestion' = Max(0, currentQuestion - 1)
    /\ last' = NoCall
    /\ UNCHANGED << adminVars, returnedQuestions >>
    /\ UNCHANGED << server, examLoading, examError, examData, answers, timeLeft, isSubmitted,
                    attemptId, startPending, startRequests, timer, ticks, startDuration,
                    submitPending, timeouts, location >>

\* the Next button, line 1036, rendered unless the current question is the last
NextQuestion ==
    /\ QuestionView
    /\ currentQuestion # Len(questions) - 1
    /\ currentQuestion' = Min(Len(questions) - 1, currentQuestion + 1)
    /\ last' = NoCall
    /\ UNCHANGED << adminVars, returnedQuestions >>
    /\ UNCHANGED << server, examLoading, examError, examData, answers, timeLeft, isSubmitted,
                    attemptId, startPending, startRequests, timer, ticks, startDuration,
                    submitPending, timeouts, location >>

\* a variant of the grid with one button too many
JumpPastEnd ==
    /\ QuestionView
    /\ \E index \in 0..Len(questions) : currentQuestion' = index
    /\ last' = NoCall
    /\ UNCHANGED << adminVars, returnedQuestions >>
    /\ UNCHANGED << server, examLoading, examError, examData, answers, timeLeft, isSubmitted,
                    attemptId, startPending, startRequests, timer, ticks, startDuration,
                    submitPending, timeouts, location >>

\* a button of the question grid, line 1079
JumpTo ==
    /\ QuestionView
    /\ \E index \in 0..(Len(questions) - 1) : currentQuestion' = index
    /\ last' = NoCall
    /\ UNCHANGED << adminVars, returnedQuestions >>
    /\ UNCHANGED << server, examLoading, examError, examData, answers, timeLeft, isSubmitted,
                    attemptId, startPending, startRequests, timer, ticks, startDuration,
                    submitPending, timeouts, location >>

\* the Submit Test button, lines 988-1016, rendered on the last question
ClickSubmit ==
    /\ QuestionView
    /\ currentQuestion = Len(questions) - 1
    /\ submitPending < MaxPending
    /\ \E ok \in BOOLEAN : HandleSubmit("button", attemptId, answers, questions, ok)
    /\ UNCHANGED << adminVars, returnedQuestions >>
    /\ UNCHANGED << server, examLoading, examError, examData, currentQuestion, answers,
                    timeLeft, isSubmitted, attemptId, startPending, startRequests, timer,
                    ticks, startDuration, timeouts, location >>

\* a variant in which the countdown effect's cleanup does not run
SubmitSuccessKeepsInterval ==
    /\ Mounted /\ submitPending > 0
    /\ submitPending' = submitPending - 1
    /\ isSubmitted' = TRUE
    /\ \E hasId \in BOOLEAN :
         timeouts' = timeouts \cup
             { [kind |-> "results", delay |-> ResultsDelayMs,
                respAttemptId |-> IF hasId THEN attemptId ELSE Undefined] }
    /\ last' = NoCall
    /\ UNCHANGED << adminVars, returnedQuestions >>
    /\ UNCHANGED << server, examLoading, examError, examData, currentQuestion, answers,
                    timeLeft, attemptId, startPending, startRequests, timer, ticks,
                    startDuration, location >>

\* submitAttemptMutation.onSuccess, lines 117-141, and the countdown effect's cleanup
SubmitSuccess ==
    /\ Mounted /\ submitPending > 0
    /\ submitPending' = submitPending - 1
    /\ isSubmitted' = TRUE
    /\ timer' = IF isSubmitted THEN timer ELSE NoTimer
    /\ \E hasId \in BOOLEAN :
         timeouts' = timeouts \cup
             { [kind |-> "results", delay |-> ResultsDelayMs,
                respAttemptId |-> IF hasId THEN attemptId ELSE Undefined] }
    /\ last' = NoCall
    /\ UNCHANGED << adminVars, returnedQuestions >>
    /\ UNCHANGED << server, examLoading, examError, examData, currentQuestion, answers,
                    timeLeft, attemptId, startPending, startRequests, ticks, startDuration,
                    location >>

\* a variant of onError that gives the attempt up
SubmitErrorMarksSubmitted ==
    /\ Mounted /\ submitPending > 0
    /\ submitPending' = submitPending - 1
    /\ isSubmitted' = TRUE
    /\ timer' = NoTimer
    /\ last' = [NoCall EXCEPT !.toast = "Failed to submit exam"]
    /\ UNCHANGED << adminVars, returnedQuestions >>
    /\ UNCHANGED << server, examLoading, examError, examData, currentQuestion, answers,
                    timeLeft, attemptId, startPending, startRequests, ticks,
                    startDuration, timeouts, location >>

\* submitAttemptMutation.onError, lines 142-145: a notification, no state change
SubmitError ==
    /\ Mounted /\ submitPending > 0
    /\ submitPending' = submitPending - 1
    /\ last' = [NoCall EXCEPT !.toast = "Failed to submit exam"]
    /\ UNCHANGED << adminVars, returnedQuestions >>
    /\ UNCHANGED << server, examLoading, examError, examData, currentQuestion, answers,
                    timeLeft, isSubmitted, attemptId, startPending,
                    startRequests, timer, ticks, startDuration, timeouts, location >>

\* the two buttons of the attempts-exceeded view, lines 369-380
ExceededNavigate ==
    /\ Mounted /\ ~examError /\ ~examLoading /\ AttemptsExceeded(examData)
    /\ \E route \in { "/student/tests", "/student/history" } :
         location' = [route |-> route, param |-> ""]
    /\ timer' = NoTimer
    /\ last' = NoCall
    /\ UNCHANGED << adminVars, returnedQuestions >>
    /\ UNCHANGED << server, examLoading, examError, examData, currentQuestion, answers,
                    timeLeft, isSubmitted, attemptId, startPending, startRequests, ticks,
                    startDuration, submitPending, timeouts >>

\* the setTimeout callback of lines 173-175; leaving the route unmounts the view
RedirectTimeout ==
    /\ \E t \in timeouts :
         /\ t.kind = "redirect"
         /\ timeouts' = timeouts \ { t }
    /\ location' = [route |-> "/student/tests", param |-> ""]
    /\ timer' = NoTimer
    /\ last' = NoCall
    /\ UNCHANGED << adminVars, returnedQuestions >>
    /\ UNCHANGED << server, examLoading, examError, examData, currentQuestion, answers,
                    timeLeft, isSubmitted, attemptId, startPending,
                    startRequests, ticks, startDuration, submitPending >>

\* the setTimeout callback of lines 137-140. Its const attemptId shadows the state
\* variable, so the right operand of || reads the callback's own binding: a
\* ReferenceError where const is kept, undefined where the build turns it into var.
ResultsTimeout ==
    /\ \E t \in timeouts :
         /\ t.kind = "results"
         /\ timeouts' = timeouts \ { t }
         /\ IF ~Falsy(t.respAttemptId)
            THEN /\ location' = [route |-> "/exam/results", param |-> t.respAttemptId]
                 /\ timer' = NoTimer
            ELSE \/ UNCHANGED << location, timer >>
                 \/ /\ location' = [route |-> "/exam/results", param |-> Undefined]
                    /\ timer' = NoTimer
    /\ last' = NoCall
    /\ UNCHANGED << adminVars, returnedQuestions >>
    /\ UNCHANGED << server, examLoading, examError, examData, currentQuestion, answers,
                    timeLeft, isSubmitted, attemptId, startPending,
                    startRequests, ticks, startDuration, submitPending >>

(***************************************************************************)
(* The question manager, src/src/pages/admin/Questions.jsx: bulk insert.   *)
(* The text of the bulk textarea is a sequence of tokens: brackets, commas *)
(* and elements. An element token stands for a JSON value that is a        *)
(* complete question object, a question object without one of the three    *)
(* required fields, or null.                                               *)
(***************************************************************************)
ElementTokens == { "Q", "Q-text", "Q-examCategoryId", "Q-type", "null",
                   "Q-optional", "Q-options", "Q-essay", "Q-single" }
\* the tokens typed when the required fields are followed
BulkTokens == { "[", "]", ",", "Q", "Q-text", "Q-examCategoryId", "Q-type", "null" }
\* the tokens typed when the optional fields are followed
BatchTokens == { "[", "]", ",", "Q", "Q-optional", "Q-options", "Q-essay", "Q-single" }

ParseFailure == [ok |-> FALSE, next |-> 0, isArray |-> FALSE, kind |-> "", items |-> << >>]

\* JSON.parse, line 222: value := element | "[" "]" | "[" value { "," value } "]".
\* An array nested in an array is kept as an item of kind "array".
RECURSIVE ParseValue(_, _)
RECURSIVE ParseElements(_, _)
ParseValue(toks, i) ==
    IF i > Len(toks) THEN ParseFailure
    ELSE IF toks[i] \in ElementTokens
    THEN [ok |-> TRUE, next |-> i + 1, isArray |-> FALSE, kind |-> toks[i], items |-> << >>]
    ELSE IF toks[i] = "["
    THEN IF i + 1 <= Len(toks) /\ toks[i + 1] = "]"
         THEN [ok |-> TRUE, next |-> i + 2, isArray |-> TRUE, kind |-> "array",
               items |-> << >>]
         ELSE ParseElements(toks, i + 1)
    ELSE ParseFailure
ParseElements(toks, i) ==
    LET v == ParseValue(toks, i)
    IN  IF ~v.ok \/ v.next > Len(toks) THEN ParseFailure
        ELSE IF toks[v.next] = "]"
        THEN [ok |-> TRUE, next |-> v.next + 1, isArray |-> TRUE, kind |-> "array",
              items |-> << v.kind >>]
        ELSE IF toks[v.next] = ","
        THEN LET r == ParseElements(toks, v.next + 1)
             IN  IF r.ok THEN [r EXCEPT !.items = << v.kind >> \o r.items]
                 ELSE ParseFailure
        ELSE ParseFailure
JsonParse(toks) ==
    LET v == ParseValue(toks, 1)
    IN  IF v.ok /\ v.next = Len(toks) + 1 THEN v ELSE ParseFailure

\* an element of options as written in the JSON text: a bare string, or an
\* object with a text and, when hasIsCorrect, an isCorrect
BareOption(text) ==
    [isObject |-> FALSE, text |-> text, hasIsCorrect |-> FALSE, isCorrect |-> FALSE]
PairOption(text, hasIsCorrect, isCorrect) ==
    [isObject |-> TRUE, text |-> text, hasIsCorrect |-> hasIsCorrect,
     isCorrect |-> hasIsCorrect /\ isCorrect]
NoOptions == [present |-> FALSE, list |-> << >>]
Options(list) == [present |-> TRUE, list |-> list]

\* the question object an element token stands for
CompleteQuestion ==
    [text |-> "2 + 2 = ?", examCategoryId |-> "cat-1", type |-> "MULTIPLE_CHOICE",
     difficulty |-> "HARD", marks |-> Number(5), timeLimit |-> Number(30),
     options |-> Options(<< BareOption(<< "a" >>), PairOption(<< "b" >>, TRUE, TRUE),
                            PairOption(<< "c" >>, FALSE, FALSE) >>)]
Element(kind) ==
    CASE kind = "Q" -> CompleteQuestion
      [] kind = "Q-text" -> [CompleteQuestion EXCEPT !.text = Undefined]
      [] kind = "Q-examCategoryId" -> [CompleteQuestion EXCEPT !.examCategoryId = Undefined]
      [] kind = "Q-type" -> [CompleteQuestion EXCEPT !.type = Undefined]
      [] kind = "Q-optional" ->
            [CompleteQuestion EXCEPT !.text = "The sky is (blue)",
                                     !.type = "FILL_IN_THE_BLANK",
                                     !.difficulty = Undefined, !.marks = NoNumber,
                                     !.timeLimit = NoNumber,
                                     !.options = Options(<< BareOption(<< "x" >>) >>)]
      [] kind = "Q-options" -> [CompleteQuestion EXCEPT !.options = NoOptions]
      [] kind = "Q-essay" ->
            [CompleteQuestion EXCEPT !.text = "Discuss", !.type = "ESSAY",
                                     !.difficulty = "MEDIUM",
                                     !.options = Options(<< BareOption(<< "a" >>) >>)]
      [] kind = "Q-single" ->
            [CompleteQuestion EXCEPT !.text = "Pick one", !.type = "SINGLE_CHOICE",
                                     !.marks = Number(0), !.timeLimit = Number(0)]

\* ['MULTIPLE_CHOICE', 'FILL_IN_THE_BLANK'].includes(q.type), lines 235 and 249
TakesOptions(type) == type \in { "MULTIPLE_CHOICE", "FILL_IN_THE_BLANK" }

\* a variant that passes an option on as it was written
OptionAsWritten(option) ==
    [isObject |-> option.isObject, text |-> option.text, isCorrect |-> option.isCorrect]
\* option => ({ text: option.text || option, isCorrect: option.isCorrect || false }),
\* lines 236-239; the text of an object whose own text is empty or absent is the
\* object itself, written << "{}" >> here
NormaliseOption(option) ==
    [isObject |-> TRUE,
     text |-> IF option.isObject /\ option.text = << >> THEN << "{}" >> ELSE option.text,
     isCorrect |-> option.isObject /\ option.hasIsCorrect /\ option.isCorrect]

\* the object returned by the callback of questions.map, lines 241-250
ValidatedQuestion(q) ==
    [text |-> q.text,
     examCategoryId |-> q.examCategoryId,
     difficulty |-> IF q.difficulty = Undefined \/ q.difficulty = "" THEN "EASY"
                    ELSE q.difficulty,
     type |-> q.type,
     marks |-> IF Truthy(q.marks) THEN q.marks.n ELSE 1,
     timeLimit |-> IF Truthy(q.timeLimit) THEN q.timeLimit.n ELSE 60,
     options |-> IF TakesOptions(q.type) /\ q.options.present
                 THEN [i \in 1..Len(q.options.list) |-> NormaliseOption(q.options.list[i])]
                 ELSE << >>]

\* a variant of the required-fields test that looks at the text alone
MissingText(kind) == kind \in { "Q-text", "array" }
\* !q.text || !q.examCategoryId || !q.type, line 230 (an array has no such field)
MissingRequired(kind) == kind \in { "Q-text", "Q-examCategoryId", "Q-type", "array" }

\* questions.map(...), lines 229-248: the first element that throws ends the map
Validate(items) ==
    LET bad == { i \in 1..Len(items) : items[i] = "null" \/ MissingRequired(items[i]) }
        first == CHOOSE i \in bad : \A j \in bad : i <= j
    IN  IF bad = { }
        THEN [ok |-> TRUE, thrown |-> "", position |-> 0, batch |-> items,
              validated |-> [i \in 1..Len(items) |-> ValidatedQuestion(Element(items[i]))]]
        ELSE IF items[first] = "null"
        THEN [ok |-> FALSE, thrown |-> "TypeError", position |-> 0, batch |-> << >>,
              validated |-> << >>]
        ELSE [ok |-> FALSE,
              thrown |-> "is missing required fields (text, examCategoryId, type)",
              position |-> first, batch |-> << >>, validated |-> << >>]

\* batch: the elements whose map was sent; validated: validatedQuestions, line 253
NoBulkCall == [called |-> FALSE, toast |-> "", thrown |-> "", position |-> 0,
               sent |-> FALSE, batch |-> << >>, validated |-> << >>, text |-> << >>]

\* handleBulkInsert, lines 220-257
HandleBulkInsert ==
    LET parsed == JsonParse(bulkData)
        checked == Validate(parsed.items)
        call == [NoBulkCall EXCEPT !.called = TRUE, !.text = bulkData]
    IN  IF ~parsed.ok
        THEN /\ bulkLast' = [call EXCEPT !.toast = "Invalid JSON format",
                                         !.thrown = "SyntaxError"]
             /\ UNCHANGED bulkPending
        ELSE IF ~parsed.isArray
        THEN /\ bulkLast' = [call EXCEPT !.toast = "JSON data must be an array of questions"]
             /\ UNCHANGED bulkPending
        ELSE IF ~checked.ok
        THEN /\ bulkLast' = [call EXCEPT !.toast = "Invalid JSON format",
                                         !.thrown = checked.thrown,
                                         !.position = checked.position]
             /\ UNCHANGED bulkPending
        ELSE /\ bulkLast' = [call EXCEPT !.sent = TRUE, !.batch = checked.batch,
                                         !.validated = checked.validated]
             /\ bulkPending' = bulkPending + 1

\* the form of useState, lines 60-71; an option is a string (isObject FALSE)
\* or a { text, isCorrect } object, and a text is a sequence of characters
StringOption(text) == [isObject |-> FALSE, text |-> text, isCorrect |-> FALSE]
ObjectOption(text, isCorrect) == [isObject |-> TRUE, text |-> text, isCorrect |-> isCorrect]
EmptyForm == [question |-> << >>, categoryId |-> "", type |-> "MULTIPLE_CHOICE",
              correctAnswer |-> << >>,
              options |-> << StringOption(<< >>), StringOption(<< >>),
                             StringOption(<< >>), StringOption(<< >>) >>,
              images |-> << >>]

\* handleImageUpload, lines 317-351: the files of one use of the image input.
\* A file has a MIME type and a size in bytes.
MaxImages == 5
MaxImageBytes == 5 * 1024 * 1024
ValidImageTypes == { "image/jpeg", "image/jpg", "image/png", "image/gif", "image/webp" }
Files == [type : { "image/png", "image/webp", "image/svg+xml" },
          size : { MaxImageBytes, MaxImageBytes + 1 }]

\* a variant of the filter that tests the type alone
FileHasValidType(file) == file.type \in ValidImageTypes
\* the callback of files.filter, lines 319-334
FileIsValid(file) == file.type \in ValidImageTypes /\ ~(file.size > MaxImageBytes)

NoUpload == [called |-> FALSE, files |-> << >>, held |-> << >>, refused |-> { },
             tooMany |-> FALSE]

\* refused: the positions of the files a notification names; tooMany: whether
\* 'Maximum 5 images allowed per question' is raised
HandleImageUpload(files) ==
    LET validFiles == SelectSeq(files, FileIsValid)
        call == [NoUpload EXCEPT !.called = TRUE, !.files = files,
                                 !.held = formData.images,
                                 !.refused = { i \in 1..Len(files) : ~FileIsValid(files[i]) }]
    IN  IF Len(validFiles) + Len(formData.images) > MaxImages
        THEN /\ uploadLast' = [call EXCEPT !.tooMany = TRUE]
             /\ UNCHANGED formData
        ELSE /\ uploadLast' = call
             /\ formData' = [formData EXCEPT !.images = @ \o validFiles]

\* the questions of the list that can be loaded into the edit form: text,
\* correctAnswer and the options' texts are sequences of characters
NoQuestionEdited ==
    [id |-> Null, text |-> << >>, examCategoryId |-> "", type |-> "",
     correctAnswer |-> << >>, hasOptions |-> FALSE, options |-> << >>]
StoredQuestions ==
    { [id |-> "question-1", text |-> << "(", "a", ")" >>, examCategoryId |-> "cat-1",
       type |-> "FILL_IN_THE_BLANK", correctAnswer |-> << >>, hasOptions |-> TRUE,
       options |-> << ObjectOption(<< "a" >>, TRUE) >>],
      [id |-> "question-2", text |-> << "a" >>, examCategoryId |-> "cat-1",
       type |-> "MULTIPLE_CHOICE", correctAnswer |-> << "a" >>, hasOptions |-> TRUE,
       options |-> << ObjectOption(<< "a" >>, TRUE), ObjectOption(<< >>, FALSE) >>],
      [id |-> "question-3", text |-> << "a" >>, examCategoryId |-> "cat-1",
       type |-> "ESSAY", correctAnswer |-> << "a" >>, hasOptions |-> FALSE,
       options |-> << >>] }

\* the form handleEditQuestion sets, lines 261-272 (question.images is not followed)
EditForm(question) ==
    [question |-> question.text, categoryId |-> question.examCategoryId,
     type |-> question.type, correctAnswer |-> question.correctAnswer,
     options |-> IF question.hasOptions
                 THEN [i \in 1..Len(question.options) |->
                          StringOption(question.options[i].text)]
                 ELSE << StringOption(<< >>), StringOption(<< >>),
                         StringOption(<< >>), StringOption(<< >>) >>,
     images |-> << >>]

\* String.prototype.trim on a sequence of characters
RECURSIVE Trim(_)
Trim(text) ==
    IF text = << >> THEN << >>
    ELSE IF Head(text) = " " THEN Trim(Tail(text))
    ELSE IF text[Len(text)] = " " THEN Trim(SubSeq(text, 1, Len(text) - 1))
    ELSE text

\* formData.options.filter(opt => opt.trim()).map(...), lines 192-195 and 288-291
ChoiceOptions(form) ==
    LET kept == SelectSeq(form.options, LAMBDA opt : Trim(opt.text) # << >>)
    IN  [i \in 1..Len(kept) |->
            ObjectOption(kept[i].text, kept[i].text = form.correctAnswer)]

\* formData.options.filter(opt => opt.text && opt.text.trim()), lines 196 and 292:
\* a string has no text
BlankOptionsKept(form) ==
    SelectSeq(form.options,
              LAMBDA opt : opt.isObject /\ opt.text # << >> /\ Trim(opt.text) # << >>)

\* the condition of lines 181-182 and 277-278
RequiredFieldsFilled(form) ==
    /\ form.question # << >>
    /\ form.categoryId # ""
    /\ IF form.type = "FILL_IN_THE_BLANK" THEN Len(form.options) > 0
       ELSE form.correctAnswer # << >>

NoSave == [called |-> FALSE, kind |-> "", toast |-> "", thrown |-> "", sent |-> FALSE,
           questionId |-> Null, type |-> "", options |-> << >>]

\* handleAddQuestion (kind "create"), lines 180-218, and handleUpdateQuestion
\* (kind "update"), lines 276-299; opt.trim() throws for an option that is an object
HandleSave(kind) ==
    LET call == [NoSave EXCEPT !.called = TRUE, !.kind = kind]
        request == [call EXCEPT
                       !.sent = TRUE,
                       !.questionId = IF kind = "update" THEN editingQuestion.id ELSE Null,
                       !.type = formData.type,
                       !.options = IF formData.type = "MULTIPLE_CHOICE"
                                   THEN ChoiceOptions(formData)
                                   ELSE IF formData.type = "FILL_IN_THE_BLANK"
                                   THEN BlankOptionsKept(formData)
                                   ELSE << >>]
    IN  IF ~RequiredFieldsFilled(formData)
        THEN /\ saveLast' = [call EXCEPT !.toast = "Please fill in all required fields"]
             /\ UNCHANGED << createPending, updatePending >>
        ELSE IF /\ formData.type = "MULTIPLE_CHOICE"
                /\ \E i \in 1..Len(formData.options) : formData.options[i].isObject
        THEN /\ saveLast' = [call EXCEPT !.thrown = "TypeError"]
             /\ UNCHANGED << createPending, updatePending >>
        ELSE /\ saveLast' = request
             /\ createPending' = IF kind = "create" THEN createPending + 1 ELSE createPending
             /\ updatePending' = IF kind = "update" THEN updatePending + 1 ELSE updatePending

AdminInit ==
    /\ showAddModal = FALSE
    /\ isBulkInsert = FALSE
    /\ bulkData = << >>
    /\ bulkPending = 0
    /\ bulkLast = NoBulkCall
    /\ uploadLast = NoUpload
    /\ editingQuestion = NoQuestionEdited
    /\ createPending = 0
    /\ updatePending = 0
    /\ saveLast = NoSave
    /\ formData = EmptyForm

\* the Bulk Insert button, lines 481-491
OpenBulkInsert ==
    /\ ~showAddModal
    /\ isBulkInsert' = TRUE
    /\ bulkData' = << >>
    /\ showAddModal' = TRUE
    /\ bulkLast' = NoBulkCall
    /\ uploadLast' = NoUpload
    /\ saveLast' = NoSave
    /\ editingQuestion' = NoQuestionEdited
    /\ UNCHANGED << createPending, updatePending >>
    /\ UNCHANGED << bulkPending, formData, examVars >>

\* the bulk textarea's onChange, line 809: one token typed at the end
TypeBulkToken ==
    /\ showAddModal /\ isBulkInsert
    /\ Len(bulkData) < MaxTokens
    /\ \E tok \in BulkTokens : bulkData' = Append(bulkData, tok)
    /\ bulkLast' = NoBulkCall
    /\ uploadLast' = NoUpload
    /\ saveLast' = NoSave
    /\ UNCHANGED << editingQuestion, createPending, updatePending >>
    /\ UNCHANGED << showAddModal, isBulkInsert, bulkPending, formData, examVars >>

\* the bulk textarea's onChange, line 809: one token typed at the end, among
\* those of questions that have the three required fields
TypeBatchToken ==
    /\ showAddModal /\ isBulkInsert
    /\ Len(bulkData) < MaxTokens
    /\ \E tok \in BatchTokens : bulkData' = Append(bulkData, tok)
    /\ bulkLast' = NoBulkCall
    /\ uploadLast' = NoUpload
    /\ saveLast' = NoSave
    /\ UNCHANGED << editingQuestion, createPending, updatePending >>
    /\ UNCHANGED << showAddModal, isBulkInsert, bulkPending, formData, examVars >>

\* the bulk textarea's onChange, line 809: the last token deleted
DeleteBulkToken ==
    /\ showAddModal /\ isBulkInsert
    /\ Len(bulkData) > 0
    /\ bulkData' = SubSeq(bulkData, 1, Len(bulkData) - 1)
    /\ bulkLast' = NoBulkCall
    /\ uploadLast' = NoUpload
    /\ saveLast' = NoSave
    /\ UNCHANGED << editingQuestion, createPending, updatePending >>
    /\ UNCHANGED << showAddModal, isBulkInsert, bulkPending, formData, examVars >>

\* the Create Questions button, lines 1285-1291, disabled while a request is pending
ClickCreateQuestions ==
    /\ showAddModal /\ isBulkInsert
    /\ editingQuestion = NoQuestionEdited
    /\ bulkPending = 0 /\ createPending = 0 /\ updatePending = 0
    /\ HandleBulkInsert
    /\ uploadLast' = NoUpload
    /\ saveLast' = NoSave
    /\ UNCHANGED << editingQuestion, createPending, updatePending >>
    /\ UNCHANGED << showAddModal, isBulkInsert, bulkData, formData, examVars >>

\* bulkInsertMutation.onSuccess, lines 167-174
BulkInsertSuccess ==
    /\ bulkPending > 0
    /\ bulkPending' = bulkPending - 1
    /\ showAddModal' = FALSE
    /\ isBulkInsert' = FALSE
    /\ bulkData' = << >>
    /\ bulkLast' = NoBulkCall
    /\ uploadLast' = NoUpload
    /\ saveLast' = NoSave
    /\ UNCHANGED << editingQuestion, createPending, updatePending >>
    /\ UNCHANGED << formData, examVars >>

\* bulkInsertMutation.onError, lines 175-177
BulkInsertError ==
    /\ bulkPending > 0
    /\ bulkPending' = bulkPending - 1
    /\ bulkLast' = [NoBulkCall EXCEPT !.toast = "Failed to create questions"]
    /\ uploadLast' = NoUpload
    /\ saveLast' = NoSave
    /\ UNCHANGED << editingQuestion, createPending, updatePending >>
    /\ UNCHANGED << showAddModal, isBulkInsert, bulkData, formData, examVars >>

\* the Cancel button, lines 1274-1284, disabled while a request is pending
CancelModal ==
    /\ showAddModal
    /\ bulkPending = 0 /\ createPending = 0 /\ updatePending = 0
    /\ showAddModal' = FALSE
    /\ isBulkInsert' = FALSE
    /\ bulkData' = << >>
    /\ bulkLast' = NoBulkCall
    /\ uploadLast' = NoUpload
    /\ saveLast' = NoSave
    /\ UNCHANGED << editingQuestion, createPending, updatePending >>
    /\ UNCHANGED << bulkPending, formData, examVars >>

(***************************************************************************)
(* The question manager: the add-question form. A text is a sequence of    *)
(* characters, typed at the end or deleted from it.                        *)
(***************************************************************************)
Chars == { "(", ")", "a" }
FormTypes == { "MULTIPLE_CHOICE", "FILL_IN_THE_BLANK", "ESSAY" }
OptionTexts == { << >>, << "a" >> }

\* the values a textarea holding text can take after one keystroke
Edits(text) ==
    { Append(text, c) : c \in IF Len(text) < MaxTextLen THEN Chars ELSE { } }
        \cup (IF Len(text) > 0 THEN { SubSeq(text, 1, Len(text) - 1) } ELSE { })

\* text.match(/\([^)]*\)/g), line 1057, from position i on: each match runs from
\* a "(" to the first ")" after it; the empty sequence stands for null
RECURSIVE MatchFrom(_, _)
MatchFrom(text, i) ==
    LET opens == { o \in i..Len(text) : text[o] = "(" }
        open == CHOOSE o \in opens : \A x \in opens : o <= x
        closes == { c \in (open + 1)..Len(text) : text[c] = ")" }
        close == CHOOSE c \in closes : \A x \in closes : c <= x
    IN  IF opens = { } THEN << >>
        ELSE IF closes = { } THEN << >>
        ELSE << SubSeq(text, open, close) >> \o MatchFrom(text, close + 1)
Matches(text) == MatchFrom(text, 1)

\* matches.map(match => ({ text: match.slice(1, -1), isCorrect: false })), lines 1059-1062
BlankOptions(matches) ==
    [i \in 1..Len(matches) |->
        ObjectOption(SubSeq(matches[i], 2, Len(matches[i]) - 1), FALSE)]

FormShown == showAddModal /\ ~isBulkInsert

\* the Add Question button, lines 460-480
OpenAddQuestion ==
    /\ ~showAddModal
    /\ isBulkInsert' = FALSE
    /\ formData' = EmptyForm
    /\ showAddModal' = TRUE
    /\ uploadLast' = NoUpload
    /\ saveLast' = NoSave
    /\ editingQuestion' = NoQuestionEdited
    /\ UNCHANGED << createPending, updatePending >>
    /\ UNCHANGED << bulkData, bulkPending, bulkLast, examVars >>

\* the Type select's onChange, line 920
ChangeType ==
    /\ FormShown
    /\ \E type \in FormTypes \ { formData.type } :
         formData' = [formData EXCEPT !.type = type]
    /\ uploadLast' = NoUpload
    /\ saveLast' = NoSave
    /\ UNCHANGED << editingQuestion, createPending, updatePending >>
    /\ UNCHANGED << showAddModal, isBulkInsert, bulkData, bulkPending, bulkLast, examVars >>

\* the Question textarea's onChange, line 862
ChangeQuestion ==
    /\ FormShown
    /\ \E text \in Edits(formData.question) :
         formData' = [formData EXCEPT !.question = text]
    /\ uploadLast' = NoUpload
    /\ saveLast' = NoSave
    /\ UNCHANGED << editingQuestion, createPending, updatePending >>
    /\ UNCHANGED << showAddModal, isBulkInsert, bulkData, bulkPending, bulkLast, examVars >>

\* the fill-in-the-blank textarea's onChange, lines 1052-1065
ChangeBlankQuestion ==
    /\ FormShown
    /\ formData.type = "FILL_IN_THE_BLANK"
    /\ \E text \in Edits(formData.question) :
         LET matches == Matches(text)
         IN  formData' = [formData EXCEPT
                             !.question = text,
                             !.options = IF matches # << >> THEN BlankOptions(matches)
                                         ELSE @]
    /\ uploadLast' = NoUpload
    /\ saveLast' = NoSave
    /\ UNCHANGED << editingQuestion, createPending, updatePending >>
    /\ UNCHANGED << showAddModal, isBulkInsert, bulkData, bulkPending, bulkLast, examVars >>

\* handleOptionChange, lines 301-305, from the option inputs of line 987
ChangeOption ==
    /\ FormShown
    /\ formData.type = "MULTIPLE_CHOICE"
    /\ \E index \in 1..Len(formData.options), value \in OptionTexts :
         formData' = [formData EXCEPT !.options[index] = StringOption(value)]
    /\ uploadLast' = NoUpload
    /\ saveLast' = NoSave
    /\ UNCHANGED << editingQuestion, createPending, updatePending >>
    /\ UNCHANGED << showAddModal, isBulkInsert, bulkData, bulkPending, bulkLast, examVars >>

\* addOption, lines 307-309
AddOption ==
    /\ FormShown
    /\ formData.type = "MULTIPLE_CHOICE"
    /\ Len(formData.options) < MaxOptions
    /\ formData' = [formData EXCEPT !.options = Append(@, StringOption(<< >>))]
    /\ uploadLast' = NoUpload
    /\ saveLast' = NoSave
    /\ UNCHANGED << editingQuestion, createPending, updatePending >>
    /\ UNCHANGED << showAddModal, isBulkInsert, bulkData, bulkPending, bulkLast, examVars >>

\* removeOption, lines 311-314, offered while there are more than two options
RemoveOption ==
    /\ FormShown
    /\ formData.type = "MULTIPLE_CHOICE"
    /\ Len(formData.options) > 2
    /\ \E index \in 1..Len(formData.options) :
         formData' = [formData EXCEPT !.options =
                         SubSeq(@, 1, index - 1) \o SubSeq(@, index + 1, Len(@))]
    /\ uploadLast' = NoUpload
    /\ saveLast' = NoSave
    /\ UNCHANGED << editingQuestion, createPending, updatePending >>
    /\ UNCHANGED << showAddModal, isBulkInsert, bulkData, bulkPending, bulkLast, examVars >>

\* the blank's answer input, lines 1097-1103: newOptions[index].text = value
\* sets nothing when the entry is a string
ChangeBlankAnswer ==
    /\ FormShown
    /\ formData.type = "FILL_IN_THE_BLANK"
    /\ \E index \in 1..Len(formData.options), value \in OptionTexts :
         /\ formData.options[index].isObject
         /\ formData' = [formData EXCEPT !.options[index].text = value]
    /\ uploadLast' = NoUpload
    /\ saveLast' = NoSave
    /\ UNCHANGED << editingQuestion, createPending, updatePending >>
    /\ UNCHANGED << showAddModal, isBulkInsert, bulkData, bulkPending, bulkLast, examVars >>

\* the blank's Correct checkbox, lines 1118-1125
ToggleBlankCorrect ==
    /\ FormShown
    /\ formData.type = "FILL_IN_THE_BLANK"
    /\ \E index \in 1..Len(formData.options) :
         /\ formData.options[index].isObject
         /\ formData' = [formData EXCEPT !.options[index].isCorrect = ~@]
    /\ uploadLast' = NoUpload
    /\ saveLast' = NoSave
    /\ UNCHANGED << editingQuestion, createPending, updatePending >>
    /\ UNCHANGED << showAddModal, isBulkInsert, bulkData, bulkPending, bulkLast, examVars >>

\* the Edit button of a question of the list, line 538: handleEditQuestion
OpenEditQuestion ==
    /\ ~showAddModal
    /\ \E question \in StoredQuestions :
         /\ editingQuestion' = question
         /\ formData' = EditForm(question)
    /\ showAddModal' = TRUE
    /\ saveLast' = NoSave
    /\ uploadLast' = NoUpload
    /\ UNCHANGED << isBulkInsert, bulkData, bulkPending, bulkLast, createPending,
                    updatePending, examVars >>

\* the Category select's onChange, line 881
ChangeCategory ==
    /\ FormShown
    /\ \E value \in { "", "cat-1" } \ { formData.categoryId } :
         formData' = [formData EXCEPT !.categoryId = value]
    /\ saveLast' = NoSave
    /\ uploadLast' = NoUpload
    /\ UNCHANGED << showAddModal, isBulkInsert, bulkData, bulkPending, bulkLast,
                    editingQuestion, createPending, updatePending, examVars >>

\* the Correct Answer select's onChange, lines 1142-1156: the values offered are
\* '' and each option (an object is offered as the string it converts to)
SelectCorrectAnswer ==
    /\ FormShown
    /\ formData.type = "MULTIPLE_CHOICE"
    /\ \E value \in { << >> } \cup
                     { IF formData.options[i].isObject THEN << "[object Object]" >>
                       ELSE formData.options[i].text : i \in 1..Len(formData.options) } :
         /\ value # formData.correctAnswer
         /\ formData' = [formData EXCEPT !.correctAnswer = value]
    /\ saveLast' = NoSave
    /\ uploadLast' = NoUpload
    /\ UNCHANGED << showAddModal, isBulkInsert, bulkData, bulkPending, bulkLast,
                    editingQuestion, createPending, updatePending, examVars >>

\* the Add Question / Update Question button, lines 1285-1291, disabled while a
\* request is pending
ClickSave ==
    /\ FormShown
    /\ bulkPending = 0 /\ createPending = 0 /\ updatePending = 0
    /\ HandleSave(IF editingQuestion # NoQuestionEdited THEN "update" ELSE "create")
    /\ uploadLast' = NoUpload
    /\ UNCHANGED << showAddModal, isBulkInsert, bulkData, bulkPending, bulkLast,
                    editingQuestion, formData, examVars >>

\* createQuestionMutation.onSuccess, lines 117-132
CreateQuestionSuccess ==
    /\ createPending > 0
    /\ createPending' = createPending - 1
    /\ showAddModal' = FALSE
    /\ formData' = EmptyForm
    /\ saveLast' = NoSave
    /\ uploadLast' = NoUpload
    /\ UNCHANGED << isBulkInsert, bulkData, bulkPending, bulkLast, editingQuestion,
                    updatePending, examVars >>

\* createQuestionMutation.onError, lines 133-135
CreateQuestionError ==
    /\ createPending > 0
    /\ createPending' = createPending - 1
    /\ saveLast' = [NoSave EXCEPT !.toast = "Failed to create question"]
    /\ uploadLast' = NoUpload
    /\ UNCHANGED << showAddModal, isBulkInsert, bulkData, bulkPending, bulkLast,
                    editingQuestion, updatePending, formData, examVars >>

\* updateQuestionMutation.onSuccess, lines 141-159
UpdateQuestionSuccess ==
    /\ updatePending > 0
    /\ updatePending' = updatePending - 1
    /\ showAddModal' = FALSE
    /\ editingQuestion' = NoQuestionEdited
    /\ formData' = EmptyForm
    /\ saveLast' = NoSave
    /\ uploadLast' = NoUpload
    /\ UNCHANGED << isBulkInsert, bulkData, bulkPending, bulkLast, createPending,
                    examVars >>

\* updateQuestionMutation.onError, lines 160-162
UpdateQuestionError ==
    /\ updatePending > 0
    /\ updatePending' = updatePending - 1
    /\ saveLast' = [NoSave EXCEPT !.toast = "Failed to update question"]
    /\ uploadLast' = NoUpload
    /\ UNCHANGED << showAddModal, isBulkInsert, bulkData, bulkPending, bulkLast,
                    editingQuestion, createPending, formData, examVars >>

\* the sequences of 1 to MaxUpload files
RECURSIVE FileLists(_)
FileLists(n) ==
    IF n = 0 THEN { << >> }
    ELSE LET shorter == FileLists(n - 1)
         IN  shorter \cup { Append(l, f) : l \in { x \in shorter : Len(x) = n - 1 },
                                            f \in Files }

\* the image input's onChange, lines 1197-1201
UploadImages ==
    /\ FormShown
    /\ \E files \in FileLists(MaxUpload) \ { << >> } : HandleImageUpload(files)
    /\ saveLast' = NoSave
    /\ UNCHANGED << editingQuestion, createPending, updatePending >>
    /\ UNCHANGED << showAddModal, isBulkInsert, bulkData, bulkPending, bulkLast, examVars >>

\* removeImage, lines 353-356, from the button of each preview
RemoveImage ==
    /\ FormShown
    /\ \E index \in 1..Len(formData.images) :
         formData' = [formData EXCEPT !.images =
                         SubSeq(@, 1, index - 1) \o SubSeq(@, index + 1, Len(@))]
    /\ uploadLast' = NoUpload
    /\ saveLast' = NoSave
    /\ UNCHANGED << editingQuestion, createPending, updatePending >>
    /\ UNCHANGED << showAddModal, isBulkInsert, bulkData, bulkPending, bulkLast, examVars >>

(***************************************************************************)
(* Specification.                                                          *)
(***************************************************************************)
ExamInit ==
    /\ server \in [bank : Banks, numericIds : BOOLEAN]
    /\ examLoading = TRUE
    /\ examError = FALSE
    /\ examData = NoData
    /\ currentQuestion = 0
    /\ answers = << >>
    /\ timeLeft = DefaultTimeLeft
    /\ isSubmitted = FALSE
    /\ attemptId = Null
    /\ startPending = 0
    /\ startRequests = 0
    /\ timer = NoTimer
    /\ ticks = 0
    /\ startDuration = NoDuration
    /\ submitPending = 0
    /\ timeouts = { }
    /\ location = [route |-> "/exam", param |-> "exam-1"]
    /\ last = NoCall
    /\ returnedQuestions = << >>

Init == ExamInit /\ AdminInit

ServedDurations == { Twentieths(k) : k \in 1..MaxDuration }

StartSuccess == StartAttemptSuccess(ServedDurations)

Next ==
    \/ FetchExamSuccess
    \/ FetchExamError
    \/ StartSuccess
    \/ StartAttemptError
    \/ Tick
    \/ SelectOption
    \/ TypeText
    \/ FillBlank
    \/ Previous
    \/ NextQuestion
    \/ JumpTo
    \/ ClickSubmit
    \/ SubmitSuccess
    \/ SubmitError
    \/ ExceededNavigate
    \/ RedirectTimeout
    \/ ResultsTimeout

Spec == Init /\ [][Next]_vars

\* the start of an attempt: responses without a duration and with a whole
\* number of minutes, the ticks that follow capped at MaxTicks
StartDurations == { NoDuration } \cup { Minutes(k) : k \in 0..MaxMinutes }

StartAnyDuration == StartAttemptSuccess(StartDurations)

TickCapped == ticks < MaxTicks /\ Tick

StartNext ==
    \/ FetchExamSuccess
    \/ FetchExamError
    \/ StartAnyDuration
    \/ StartAttemptError
    \/ TickCapped
    \/ SelectOption
    \/ TypeText
    \/ FillBlank
    \/ Previous
    \/ NextQuestion

StartSpec == Init /\ [][StartNext]_vars

\* the bulk-insert dialog of the question manager
BulkNext ==
    \/ OpenBulkInsert
    \/ TypeBulkToken
    \/ DeleteBulkToken
    \/ ClickCreateQuestions
    \/ BulkInsertSuccess
    \/ BulkInsertError
    \/ CancelModal

\* the question manager alone: the exam runner is not mounted
QuestionsInit ==
    /\ Init
    /\ server = [bank |-> << "MULTIPLE_CHOICE", "ESSAY" >>, numericIds |-> FALSE]

BulkSpec == QuestionsInit /\ [][BulkNext]_vars

\* the bulk-insert dialog, for batches of questions with the required fields
BatchNext ==
    \/ OpenBulkInsert
    \/ TypeBatchToken
    \/ DeleteBulkToken
    \/ ClickCreateQuestions
    \/ BulkInsertSuccess
    \/ BulkInsertError
    \/ CancelModal

BatchSpec == QuestionsInit /\ [][BatchNext]_vars

\* the form of a choice question, from its opening to the request that saves it
SaveNext ==
    \/ OpenAddQuestion
    \/ OpenEditQuestion
    \/ ChangeQuestion
    \/ ChangeCategory
    \/ ChangeOption
    \/ AddOption
    \/ RemoveOption
    \/ SelectCorrectAnswer
    \/ ClickSave
    \/ CreateQuestionSuccess
    \/ CreateQuestionError
    \/ UpdateQuestionSuccess
    \/ UpdateQuestionError
    \/ CancelModal

SaveSpec == QuestionsInit /\ [][SaveNext]_vars

\* the images of the add-question form
ImageNext ==
    \/ OpenAddQuestion
    \/ UploadImages
    \/ RemoveImage
    \/ CancelModal

ImageSpec == QuestionsInit /\ [][ImageNext]_vars

\* the add-question form of the question manager
FormNext ==
    \/ OpenAddQuestion
    \/ ChangeType
    \/ ChangeQuestion
    \/ ChangeBlankQuestion
    \/ ChangeOption
    \/ AddOption
    \/ RemoveOption
    \/ ChangeBlankAnswer
    \/ ToggleBlankCorrect
    \/ CancelModal

FormSpec == QuestionsInit /\ [][FormNext]_vars

(***************************************************************************)
(* Properties.                                                             *)
(***************************************************************************)

\* C1: when the countdown reaches 0 the submitAttempt request is issued
\* unconditionally: the expiry path shows no confirmation dialog and the
\* request does not wait on the user's reply.
C1_ExpirySubmitsUnconditionally ==
    last.via = "timer" => (~last.confirmShown /\ last.sent)

\* C2: the expiry of the countdown cancels the interval at 0 and issues
\* exactly one submitAttempt request, never none.
RequestsIssued(call) == IF call.sent THEN 1 ELSE 0
C2_ExpiryIssuesExactlyOneRequest ==
    last.via = "timer" =>
        /\ timeLeft = 0
        /\ ~timer.active
        /\ RequestsIssued(last) = 1

\* C3: the request issued on expiry holds, for every question answered before
\* the countdown reached 0, the response built from its latest recorded answer,
\* as a manual submission at that moment would.
C3_ExpirySendsLatestAnswers ==
    (last.via = "timer" /\ last.sent) =>
        \A key \in Keys(answers) :
            \E i \in 1..Len(last.responses) :
                last.responses[i] = BuildResponse(key, Get(answers, key), questions)

\* C4: once an attempt has started with duration D, the remaining time plus
\* the number of ticks applied equals 60*D seconds, it is never negative, and
\* the interval is gone once it is 0: it starts at 60*D, every tick takes
\* exactly 1, and it is 0 after exactly 60*D ticks.
C4_CountdownExact ==
    (~Falsy(attemptId) /\ startDuration.present) =>
        /\ timeLeft >= 0
        /\ timeLeft + ticks = (60 * startDuration.num) \div startDuration.den
        /\ (timeLeft = 0 => ~timer.active)
        /\ (timer.active => timeLeft > 0)

C4_Witness ==
    /\ ~Falsy(attemptId)
    /\ startDuration = Twentieths(2)
    /\ timeLeft = 0
    /\ ticks = 6

\* C5: a mounted exam view issues at most one startAttempt request.
C5_AtMostOneStartRequest == startRequests <= 1

\* C6: when the fetched metadata says the attempts are used up, no
\* startAttempt request is issued, the attempt id stays unset, the countdown
\* never runs, no submitAttempt request is issued, and a redirect to
\* /student/tests is scheduled with a delay of 3000 ms.
C6_ExceededIsTerminal ==
    (examData.loaded /\ AttemptsExceeded(examData)) =>
        /\ startRequests = 0
        /\ startPending = 0
        /\ attemptId = Null
        /\ ~timer.active
        /\ ticks = 0
        /\ submitPending = 0
        /\ ~last.sent
        /\ \/ [kind |-> "redirect", delay |-> 3000, respAttemptId |-> Null] \in timeouts
           \/ location.route = "/student/tests"

C6_Witness ==
    /\ Mounted
    /\ examData.loaded
    /\ examData.attemptsInfo.attemptsUsed = 3
    /\ examData.attemptsInfo.attemptsAllowed = 3
    /\ ~examData.attemptsInfo.canTakeExam
    /\ [kind |-> "redirect", delay |-> 3000, respAttemptId |-> Null] \in timeouts

\* C7: a click on Submit with an attempt id always shows the confirmation
\* dialog; a request goes out only after an affirmative reply; after a
\* negative one no request goes out and attempt id, answers, remaining time
\* and submission status are unchanged.
C7_ManualNeedsConfirmation ==
    [][ last'.via = "button" =>
          /\ (~Falsy(attemptId) => last'.confirmShown)
          /\ (last'.sent => (last'.confirmShown /\ last'.confirmed))
          /\ ((last'.confirmShown /\ ~last'.confirmed) =>
                /\ ~last'.sent
                /\ UNCHANGED << attemptId, answers, timeLeft, isSubmitted,
                                submitPending >>) ]_vars

C7_Witness ==
    /\ last.via = "button"
    /\ last.confirmShown
    /\ ~last.confirmed
    /\ Len(answers) > 0

\* C8: a submitted response list holds exactly one response for each question
\* with a recorded answer in the answers object handleSubmit read, and none
\* for any other question; a manual submission reads the current answers.
\* answers {q1: 1} with questions [q1 MULTIPLE_CHOICE, q2 ESSAY] gives exactly
\* one response, for q1, with selectedOptions [1] and no essayAnswer.
C8_ExampleQuestions ==
    << [id |-> StrId(1), type |-> "MULTIPLE_CHOICE"], [id |-> StrId(2), type |-> "ESSAY"] >>
C8_ExampleAnswers == << [k |-> "q1", v |-> Num(1)] >>
ShapeByType(q, answer) ==
    IF q.type \in { "ESSAY", "SHORT_ANSWER" }
    THEN [questionId |-> PropertyKey(q.id), selectedOptions |-> << >>,
          hasEssayAnswer |-> TRUE, essayAnswer |-> answer, timeSpent |-> 0]
    ELSE [questionId |-> PropertyKey(q.id),
          selectedOptions |-> IF IsArray(answer) THEN answer.l ELSE << answer >>,
          hasEssayAnswer |-> FALSE, essayAnswer |-> NoValue, timeSpent |-> 0]
C9_ResponseShapeByType ==
    (last.via = "button" /\ last.sent) =>
        \A n \in 1..Len(questions) :
            Has(answers, PropertyKey(questions[n].id)) =>
                \E i \in 1..Len(last.responses) :
                    last.responses[i] =
                        ShapeByType(questions[n],
                                    Get(answers, PropertyKey(questions[n].id)))

\* C10: a call of handleSubmit while no attempt id exists raises the error
\* notification, shows no confirmation dialog, issues no request and leaves
\* attempt id, answers and submission status unchanged.
C10_NoAttemptFailsLocally ==
    [][ (last'.via # "none" /\ Falsy(attemptId)) =>
          /\ last'.toast = "No active exam attempt"
          /\ ~last'.confirmShown
          /\ ~last'.sent
          /\ UNCHANGED << attemptId, answers, isSubmitted, submitPending >> ]_vars

C10_Witness ==
    /\ last.via = "button"
    /\ last.toast = "No active exam attempt"
    /\ Falsy(attemptId)
    /\ submitPending = 0

\* C11: every successful submitAttempt response marks the attempt submitted
\* and schedules a callback with a delay of 3000 ms, and when that callback
\* runs the view navigates to /exam/results/<attempt id>, where the attempt id
\* is the one of the response or, when the response has none, the one the
\* view holds.
C11_SuccessNavigatesToResults ==
    [][ /\ (isSubmitted' /\ ~isSubmitted) =>
              \E t \in timeouts' : t.kind = "results" /\ t.delay = 3000
        /\ \A t \in timeouts :
              (t.kind = "results" /\ t \notin timeouts') =>
                  location' = [route |-> "/exam/results", param |-> attemptId] ]_vars

\* C12: the step that handles a failed submitAttempt request raises the
\* notification 'Failed to submit exam' and nothing else: the submission
\* status, the attempt id, the answers, the scheduled callbacks and the
\* location are unchanged, no request is issued, and the Submit button is
\* available afterwards whenever it was before.
SubmitAvailable ==
    /\ QuestionView
    /\ currentQuestion = Len(questions) - 1
    /\ ~Falsy(attemptId)
C12_SubmitFailureKeepsAttempt ==
    [][ last'.toast = "Failed to submit exam" =>
          /\ submitPending' = submitPending - 1
          /\ ~last'.sent
          /\ UNCHANGED << isSubmitted, attemptId, answers, timeouts, location,
                          startPending, startRequests, timer, examData,
                          currentQuestion >>
          /\ (SubmitAvailable => SubmitAvailable') ]_vars

C12_Witness ==
    /\ last.toast = "Failed to submit exam"
    /\ ~isSubmitted
    /\ SubmitAvailable
    /\ Len(answers) > 0
    /\ submitPending = 0
    /\ timeouts = { }

\* C13: a click on Create Questions whose text is not valid JSON, is not a
\* list, or holds at any position an element without text, examCategoryId or
\* type raises an error notification and issues no bulkCreate request; when
\* the first offending element is an object without a required field the
\* notification names its 1-based position; a request that is issued carries
\* the whole list, every element of which has the three fields.
LacksRequiredField(kind) == kind \in { "Q-text", "Q-examCategoryId", "Q-type", "array" }
C13_BulkRejectsWholeBatch ==
    bulkLast.called =>
        LET parsed == JsonParse(bulkLast.text)
            offending == { i \in 1..Len(parsed.items) :
                             parsed.items[i] = "null" \/ LacksRequiredField(parsed.items[i]) }
        IN  /\ (~parsed.ok \/ ~parsed.isArray \/ offending # { }) =>
                  /\ bulkLast.toast \in { "Invalid JSON format",
                                          "JSON data must be an array of questions" }
                  /\ ~bulkLast.sent
                  /\ bulkLast.batch = << >>
                  /\ bulkPending = 0
            /\ \A i \in offending :
                  ((\A j \in offending : i <= j) /\ LacksRequiredField(parsed.items[i])) =>
                      /\ bulkLast.position = i
                      /\ bulkLast.thrown =
                             "is missing required fields (text, examCategoryId, type)"
            /\ bulkLast.sent =>
                  /\ parsed.ok /\ parsed.isArray
                  /\ bulkLast.batch = parsed.items
                  /\ \A i \in 1..Len(bulkLast.batch) : bulkLast.batch[i] = "Q"

C13_Witness ==
    /\ bulkLast.called
    /\ bulkLast.text = << "[", "Q", ",", "Q-type", "]" >>
    /\ bulkLast.toast = "Invalid JSON format"
    /\ bulkLast.position = 2
    /\ ~bulkLast.sent
    /\ bulkPending = 0

\* C14: whenever the question view is displayed, the progress percentage it
\* shows is round(answeredCount / totalQuestions * 100), where answeredCount
\* is the number of questions of the session's list with a recorded answer
\* and totalQuestions is the length of that list.
AnsweredCount ==
    Cardinality({ i \in 1..Len(questions) : Has(answers, PropertyKey(questions[i].id)) })
C14_ProgressPercentage ==
    QuestionView =>
        \E p \in 0..100 :
            /\ ProgressPercent(answers, questions) = p
            /\ 200 * AnsweredCount - Len(questions) < 2 * p * Len(questions)
            /\ 2 * p * Len(questions) <= 200 * AnsweredCount + Len(questions)

C17_NavigationStaysInRange ==
    /\ Max(0, 0 - 1) = 0
    /\ \A n \in 1..2 : Min(n - 1, (n - 1) + 1) = n - 1
    /\ [](QuestionView =>
            /\ \A i \in 0..(Len(questions) - 1) : ENABLED (JumpTo /\ currentQuestion' = i)
            /\ (currentQuestion > 0 => ENABLED Previous)
            /\ (currentQuestion < Len(questions) - 1 => ENABLED NextQuestion))
    /\ [][ currentQuestion' # currentQuestion =>
             /\ Len(questions) > 0
             /\ currentQuestion' \in 0..(Len(questions) - 1)
             /\ UNCHANGED << examData, answers >> ]_vars

C17_Witness ==
    /\ QuestionView
    /\ Len(questions) = 2
    /\ currentQuestion = 1
    /\ answers = << >>

\* C18: a step that changes the answers object is taken in the question
\* view, stores an answer under the id of the displayed question, leaves the
\* answer of every other key as it was, issues no request, and changes
\* neither the current question index, the remaining time, the attempt id
\* nor the submission status.
C18_AnswerIsLocal ==
    [][ answers' # answers =>
          /\ QuestionView
          /\ Has(answers', PropertyKey(currentQuestionData.id))
          /\ \A key \in Keys(answers) \cup Keys(answers') :
                key # PropertyKey(currentQuestionData.id) =>
                    Get(answers', key) = Get(answers, key)
          /\ ~last'.sent
          /\ UNCHANGED << currentQuestion, timeLeft, attemptId, isSubmitted,
                          startPending, startRequests, submitPending, examData,
                          timeouts, location >> ]_vars

C18_Witness ==
    /\ Len(answers) = 2
    /\ timer.active
    /\ ticks > 0
    /\ last = NoCall
    /\ submitPending = 0

\* C19 (as stated): once a start response has been handled, the countdown
\* started from 3600 seconds when the response carried no duration and from
\* 60 times the duration whenever it carried one.
C19_DurationTimesSixty ==
    attemptId # Null =>
        timeLeft + ticks = IF startDuration.present
                           THEN (60 * startDuration.num) \div startDuration.den
                           ELSE 3600

\* C19 (amended): once a start response has been handled, the countdown
\* started from 3600 seconds when the response carried no duration or a
\* duration of 0, and from 60 times the duration when it carried a duration
\* other than 0.
C19_InitialCountdown ==
    attemptId # Null =>
        timeLeft + ticks = IF startDuration.present /\ startDuration.num # 0
                           THEN (60 * startDuration.num) \div startDuration.den
                           ELSE 3600

C19_Witness ==
    /\ attemptId = ServerAttemptId
    /\ ~startDuration.present
    /\ timer.active
    /\ ticks = 0
    /\ timeLeft = 3600

C15_OptionsMatchBlanks ==
    (FormShown /\ formData.type = "FILL_IN_THE_BLANK") =>
        /\ Len(formData.options) = Len(Matches(formData.question))
        /\ \A i \in 1..Len(formData.options) : formData.options[i].isObject

\* C21 (as stated): the step that handles a failed startAttempt request raises
\* the server's message when the payload carries one and 'Failed to start
\* exam' otherwise, and raises the attempts-exceeded notification whenever the
\* payload carries attemptsUsed and attemptsAllowed.
C21_StartFailureNotifies ==
    last.startFailed =>
        /\ last.toast = IF last.error.message # Undefined THEN last.error.message
                        ELSE "Failed to start exam"
        /\ last.detail.shown =
               (last.error.attemptsUsed.present /\ last.error.attemptsAllowed.present)

\* C21 (amended): the step that handles a failed startAttempt request raises
\* the server's message when the payload carries a non-empty one and 'Failed to
\* start exam' otherwise; it raises the attempts-exceeded notification, with
\* the two numbers, exactly when the payload carries an attemptsUsed and an
\* attemptsAllowed other than 0. The step changes no state of the view: the
\* attempt id stays unset, no interval is created and no request is issued;
\* and while the attempt id is unset with no startAttempt request in flight,
\* none is issued, the attempt id stays as it is and no tick is applied.
C21_StartFailureIsTerminal ==
    /\ [](last.startFailed =>
            /\ last.toast = IF last.error.message \notin { Undefined, "" }
                            THEN last.error.message
                            ELSE "Failed to start exam"
            /\ last.detail.shown =
                   /\ last.error.attemptsUsed.present
                   /\ last.error.attemptsUsed.n # 0
                   /\ last.error.attemptsAllowed.present
                   /\ last.error.attemptsAllowed.n # 0
            /\ last.detail.shown =>
                   /\ last.detail.attemptsUsed = last.error.attemptsUsed.n
                   /\ last.detail.attemptsAllowed = last.error.attemptsAllowed.n
            /\ Falsy(attemptId)
            /\ ~timer.active
            /\ startPending = 0)
    /\ [][ last'.startFailed =>
             /\ startPending' = startPending - 1
             /\ UNCHANGED << attemptId, timeLeft, timer, ticks, startRequests, examData,
                             answers, isSubmitted, submitPending, timeouts, location >> ]_vars
    /\ [][ (examData.loaded /\ Falsy(attemptId) /\ startPending = 0) =>
             /\ UNCHANGED << attemptId, startRequests, startPending, ticks >>
             /\ ~timer'.active ]_vars

C21_Witness ==
    /\ last.startFailed
    /\ last.error.message = Undefined
    /\ last.toast = "Failed to start exam"
    /\ last.detail = [shown |-> TRUE, attemptsUsed |-> 3, attemptsAllowed |-> 3]
    /\ attemptId = Null
    /\ startRequests = 1
    /\ startPending = 0

C23_OptionsAreRequired ==
    bulkLast.called =>
        LET parsed == JsonParse(bulkLast.text)
        IN  (/\ parsed.ok
             /\ parsed.isArray
             /\ \E i \in 1..Len(parsed.items) :
                   /\ Element(parsed.items[i]).type
                          \in { "MULTIPLE_CHOICE", "FILL_IN_THE_BLANK" }
                   /\ ~Element(parsed.items[i]).options.present) =>
                /\ ~bulkLast.sent
                /\ bulkLast.toast # ""
                /\ bulkPending = 0

\* C24: in the add-question form, opened with no image, the image list never
\* holds more than 5 images, and every image it holds has a supported type and
\* at most 5MB; an upload adds its accepted files, in order, after the images
\* held, unless they would bring the total above 5, and then it is refused as
\* a whole and leaves the list as it was; a file of another type or of more
\* than 5MB is named in a notification and never added; a removal takes one
\* image away.
C24_AtMostFiveImages ==
    /\ [](Len(formData.images) <= 5)
    /\ [](\A i \in 1..Len(formData.images) :
             /\ formData.images[i].type
                    \in { "image/jpeg", "image/jpg", "image/png", "image/gif", "image/webp" }
             /\ formData.images[i].size <= 5242880)
    /\ [][ uploadLast'.called =>
             LET files == uploadLast'.files
                 supported(f) ==
                     /\ f.type \in { "image/jpeg", "image/jpg", "image/png", "image/gif",
                                      "image/webp" }
                     /\ f.size <= 5242880
                 accepted == SelectSeq(files, supported)
             IN  /\ uploadLast'.held = formData.images
                 /\ uploadLast'.tooMany = (Len(formData.images) + Len(accepted) > 5)
                 /\ formData'.images = IF Len(formData.images) + Len(accepted) > 5
                                       THEN formData.images
                                       ELSE formData.images \o accepted
                 /\ \A i \in 1..Len(files) :
                       ~supported(files[i]) => i \in uploadLast'.refused ]_vars
    /\ [][ (formData'.images # formData.images /\ ~uploadLast'.called) =>
             \/ Len(formData'.images) = Len(formData.images) - 1
             \/ formData'.images = << >> ]_vars

C24_Witness ==
    /\ uploadLast.called
    /\ uploadLast.tooMany
    /\ Len(uploadLast.held) = 4
    /\ Len(formData.images) = 4
    /\ Len(uploadLast.files) = 2
    /\ uploadLast.refused = { }

\* C25: a submitAttempt request is issued only while no earlier one is in
\* flight and the attempt is not marked submitted, whether the call comes from
\* the Submit button or from the tick on which the countdown expires.
C25_NoSecondSubmitRequest ==
    [][ last'.sent => (submitPending = 0 /\ ~isSubmitted) ]_vars

\* C26: every key of the answers object is the id of a question of the list
\* in use, so the number of recorded answers never exceeds the number of
\* questions and the progress percentage shown never exceeds 100.
C26_AnswersBelongToQuestions ==
    /\ \A key \in Keys(answers) :
          \E i \in 1..Len(questions) : PropertyKey(questions[i].id) = key
    /\ Cardinality(Keys(answers)) <= Len(questions)
    /\ (QuestionView => ProgressPercent(answers, questions) <= 100)

\* C27: whenever the question list in use is not empty, the current question
\* index is the position of one of its questions, so the view does not show
\* 'Preparing Your Exam' while there are questions.
C27_IndexRefersToQuestion ==
    Len(questions) > 0 => currentQuestion \in 0..(Len(questions) - 1)

\* C28: once the attempt is marked submitted it stays marked, and no later
\* step changes the answers object or the remaining time, applies a tick or
\* issues a startAttempt or submitAttempt request.
C28_SubmittedIsFinal ==
    [][ isSubmitted =>
          /\ isSubmitted'
          /\ UNCHANGED << answers, timeLeft, ticks, startRequests, startPending,
                          attemptId >>
          /\ ~last'.sent
          /\ ~timer'.active ]_vars

C28_Witness ==
    /\ isSubmitted
    /\ submitPending > 0
    /\ Len(answers) > 0
    /\ timeLeft = 0
    /\ ticks > 0

\* C29: a create or update request the form sends for a MULTIPLE_CHOICE
\* question holds exactly one option with isCorrect true.
C29_ExactlyOneCorrectOption ==
    (saveLast.sent /\ saveLast.type = "MULTIPLE_CHOICE") =>
        Cardinality({ i \in 1..Len(saveLast.options) : saveLast.options[i].isCorrect }) = 1

\* C30: an update request sent from the edit form of a FILL_IN_THE_BLANK
\* question, while the form is as handleEditQuestion loaded it, carries the
\* options of the question: the same texts and isCorrect flags, in order.
C30_EditRoundTrip ==
    (/\ saveLast.sent
     /\ saveLast.kind = "update"
     /\ editingQuestion.type = "FILL_IN_THE_BLANK"
     /\ formData = EditForm(editingQuestion)) =>
        /\ saveLast.questionId = editingQuestion.id
        /\ saveLast.options = editingQuestion.options
====
